---- MODULE Spec2Model ----
(***************************************************************************)
(* Model of the cookie-based AuthInterceptor (auth.interceptor.ts, second  *)
(* class in the file), together with the parts of AuthService and          *)
(* TokenService it drives.  Every HTTP call is a request that is answered  *)
(* later by the transport; each handler of the interceptor is one action.  *)
(***************************************************************************)
EXTENDS Integers, Sequences, FiniteSets, TLC

\* ------------------------------------------------------------------ bounds
NReq == 3                    \* application requests that are ever issued
Reqs == 1..NReq

\* --------------------------------------------------------------- constants
\* url classes of the requests callers issue: own backend API, an
\* EXTERNAL_APIS host, the login endpoint of AuthService.login
AppUrls == {"api", "exempt", "login"}

\* failure statuses the transport may answer a request with, and the answers
\* to a re-sent request
ErrStatuses == {401, 500}
Responses == {200} \cup ErrStatuses

\* failure statuses of the renewal call (0: no response at all)
RefreshErrStatuses == {0} \cup ErrStatuses

\* failure statuses of a first send: one per case of the switch in
\* handleError, 504 for its default case
SendErrStatuses == {400, 401, 403, 404, 500, 504}

NoUser == "null"
User == "user"

VARIABLES
  isRefreshing,         \* AuthInterceptor.isRefreshing
  refreshTokenSubject,  \* current value of the BehaviorSubject<boolean>
  observers,            \* requests subscribed to refreshTokenSubject, in order
  requests,             \* per request: its pipeline (see NewRequest)
  isAuthenticated,      \* TokenService.isAuthenticated
  userInfo,             \* TokenService.userInfo
  currentUser,          \* AuthService.currentUser
  logoutPending,        \* POST /auth/logout calls subscribed and not answered
  sendLog,              \* the requests the latest handler re-sent, in send order
  delivered,            \* what the latest handler delivered to a caller
  epoch401,             \* 401s handled since a renewal last resolved, of
                        \* requests that were issued while isRefreshing was false
  epochCalls            \* refreshToken() calls made since a renewal last resolved

vars == <<isRefreshing, refreshTokenSubject, observers, requests,
          isAuthenticated, userInfo, currentUser, logoutPending, sendLog,
          delivered, epoch401, epochCalls>>

\* state of the other parts of the application; the handlers of the
\* interceptor leave it alone
VARIABLES
  errStatus,            \* handleError: the status of the error it is given
  failure,              \* handleError: the class of the failure it propagates
  calls,                \* AuthService: its calls that are not answered yet
  cart,                 \* CartService._cart
  orders,               \* CartService._orders
  now,                  \* the clock Date.now() reads
  receipt,              \* what the latest createOrder call resolved with
  checkout,             \* CheckoutComponent: isProcessing, state of submitOrder
  store,                \* electron main: orders.json, cart:submitOrder handlers
  catalog               \* ProductService: its signals, loads not yet answered

classifyVars == <<errStatus, failure>>
shopVars == <<cart, orders, now, receipt>>
restVars == <<checkout, store, catalog>>
appVars == <<classifyVars, calls, shopVars, restVars>>
allVars == <<vars, appVars>>

AppUnchanged == UNCHANGED appVars

LivePhases == {"sent", "refreshing", "waiting", "retrying", "replaying"}
DonePhases == {"done", "cancelled"}
Phases == {"unissued"} \cup LivePhases \cup DonePhases

Range(s) == {s[i] : i \in 1..Len(s)}

\* phase: where the pipeline stands; url: url class; withCredentials: flag of
\* the latest send; resends: re-sends to the transport; refreshCount: calls of
\* refreshToken() made for it; idle: issued while isRefreshing was false, and
\* no renewal has resolved since; status: the error status of the first send
\* that handleError passed to handle401Error (0: none so far)
NewRequest ==
  [phase |-> "unissued", url |-> "none", withCredentials |-> FALSE,
   resends |-> 0, refreshCount |-> 0, idle |-> FALSE, status |-> 0]

\* the interceptor keeps nothing of a request whose observable has ended
Ended(ph) == [NewRequest EXCEPT !.phase = ph]

\* a response (status 200) or an error handed to the caller of request r
\* and the handler that did so: of the first send ("send"), of a 401 on an
\* auth endpoint ("auth"), of the renewal ("renewal"), of the initiator's
\* re-send ("retry") or of a waiter's re-send ("replay")
Vias == {"send", "auth", "renewal", "retry", "replay"}
NoDelivery == [status |-> 0, via |-> "none", message |-> "none"]

\* the message of the object thrown by handle400Error, handle403Error,
\* handle404Error, handle5xxError and handleUnknownError in this order
\* ("http": the message of the HttpErrorResponse itself)
handlerMessage(s) ==
  IF s = 400 THEN "Bad Request: Invalid data provided"
  ELSE IF s = 403 THEN "Access Forbidden"
  ELSE IF s = 404 THEN "Resource not found"
  ELSE IF s = 502 THEN "Bad Gateway"
  ELSE IF s = 503 THEN "Service Unavailable"
  ELSE IF s = 500 THEN "Server error occurred"
  ELSE "http"

\* what reaches the caller: a response, the object built by one of the
\* handlers of handleError (first send, status other than 401), or the
\* HttpErrorResponse rethrown as it came
Delivery(s, via) ==
  [status |-> s, via |-> via,
   message |-> IF s = 200 THEN "none"
               ELSE IF via = "send" /\ s # 401 THEN handlerMessage(s)
               ELSE "http"]

\* ------------------------------------------------------- pure functions
\* a switch that sends 403 to handle401Error as well
handleErrorCase403AsAuth(s) ==
  IF s = 400 THEN "handle400Error"
  ELSE IF s \in {401, 403} THEN "handle401Error"
  ELSE IF s = 404 THEN "handle404Error"
  ELSE IF s \in {500, 502, 503} THEN "handle5xxError"
  ELSE "handleUnknownError"

\* the switch (error.status) of handleError
handleErrorCase(s) ==
  IF s = 400 THEN "handle400Error"
  ELSE IF s = 401 THEN "handle401Error"
  ELSE IF s = 403 THEN "handle403Error"
  ELSE IF s = 404 THEN "handle404Error"
  ELSE IF s \in {500, 502, 503} THEN "handle5xxError"
  ELSE "handleUnknownError"

\* shouldIncludeCredentials: false exactly for EXTERNAL_APIS urls
shouldIncludeCredentials(u) == u # "exempt"

\* request.url.includes('/auth/')
IsAuthEndpoint(u) == u \in {"login", "refresh", "logout", "me"}

\* handle401Error without its check for auth endpoints
handle401BranchNoAuthCheck(u, refreshing) ==
  IF ~refreshing THEN "startRefresh" ELSE "wait"

\* the three branches of handle401Error
handle401Branch(u, refreshing) ==
  IF IsAuthEndpoint(u) THEN "authEndpoint"
  ELSE IF ~refreshing THEN "startRefresh"
  ELSE "wait"

\* delivery to the latest subscriber first
DeliveryReversed(obs) == [i \in 1..Len(obs) |-> obs[Len(obs) + 1 - i]]

\* Subject.next delivers to the observers in subscription order
DeliveryOrder(obs) == obs

\* observers without take(1): they stay subscribed
ObserversStaySubscribed(obs, emitted) == obs

\* take(1): an observer that received `true` completes and is removed
ObserversAfterEmit(obs, emitted) == IF emitted THEN <<>> ELSE obs

\* filter(refreshComplete => refreshComplete === true)
PassesFilter(v) == v = TRUE

\* a renewal resolved: no request counts as issued before it any more
NotIdle(q) == [q EXCEPT !.idle = FALSE]

\* a re-send that enters intercept() again
ResendThroughIntercept(q, ph) ==
  [q EXCEPT !.phase = "sent", !.withCredentials = TRUE, !.resends = @ + 1]

\* request.clone({ withCredentials: true }) handed to next.handle
Resend(q, ph) ==
  [q EXCEPT !.phase = ph, !.withCredentials = TRUE, !.resends = @ + 1]

TypeOK ==
  /\ isRefreshing \in BOOLEAN
  /\ refreshTokenSubject \in BOOLEAN
  /\ observers \in Seq(Reqs)
  /\ \A r \in Reqs :
       /\ requests[r].phase \in Phases
       /\ requests[r].url \in AppUrls \cup {"none"}
       /\ requests[r].withCredentials \in BOOLEAN
       /\ requests[r].resends \in 0..NReq
       /\ requests[r].refreshCount \in 0..NReq
       /\ requests[r].idle \in BOOLEAN
       /\ requests[r].status \in {0} \cup SendErrStatuses
  /\ isAuthenticated \in BOOLEAN
  /\ userInfo \in {NoUser, User}
  /\ currentUser \in {NoUser, User}
  /\ logoutPending \in 0..NReq
  /\ sendLog \in Seq(Reqs)
  /\ delivered.via \in Vias \cup {"none"}
  /\ delivered.status \in Responses \cup RefreshErrStatuses \cup SendErrStatuses
  /\ epoch401 \in 0..NReq
  /\ epochCalls \in 0..NReq

\* handleError has not been given an error
ClassifyIdle == errStatus = 0 /\ failure = "none"

\* pending calls of AuthService.login, checkAuthStatus and refreshToken
NoCalls == [login |-> 0, me |-> 0, refresh |-> 0, refreshDirect |-> 0]

\* the cart signal as constructed, with nothing in localStorage
EmptyCart == [items |-> <<>>, totalItems |-> 0, totalAmount |-> 0]

NoReceipt == [resolved |-> FALSE]

ShopIdle ==
  /\ cart = EmptyCart
  /\ orders = <<>>
  /\ now = 0
  /\ receipt = NoReceipt

\* the component as constructed: isProcessing = signal(false)
CheckoutIdle == checkout = [isProcessing |-> FALSE, submission |-> "none"]

NSubmits == 3                \* cart:submitOrder calls
Handlers == 1..NSubmits

\* a cart:submitOrder call that has not been made
NoSubmit == [pc |-> "idle", orders |-> <<>>]

\* no orders.json yet (loadOrdersFromFile returns [] on ENOENT)
StoreIdle == store = [file |-> <<>>, handlers |-> [h \in Handlers |-> NoSubmit]]

MaxLoads == 2                \* loads of one kind that are pending together
LoadKinds == {"loadProducts", "loadProductById", "loadProductsByCategory"}

\* the signals of ProductService as constructed
CatalogIdle ==
  catalog = [loading |-> FALSE, error |-> FALSE, products |-> "none",
             selectedProduct |-> FALSE, pending |-> [k \in LoadKinds |-> 0]]

RestIdle == CheckoutIdle /\ StoreIdle /\ CatalogIdle

AppIdle == ClassifyIdle /\ calls = NoCalls /\ ShopIdle /\ RestIdle

InterceptorInit ==
  /\ isRefreshing = FALSE
  /\ refreshTokenSubject = FALSE
  /\ observers = <<>>
  /\ requests = [r \in Reqs |-> NewRequest]
  /\ isAuthenticated = FALSE
  /\ userInfo = NoUser
  /\ currentUser = NoUser
  /\ logoutPending = 0
  /\ sendLog = <<>>
  /\ delivered = NoDelivery
  /\ epoch401 = 0
  /\ epochCalls = 0

Init == InterceptorInit /\ AppIdle

\* ------------------------------------------------ TokenService / AuthService
Session == [auth |-> isAuthenticated, info |-> userInfo, cur |-> currentUser]

\* a clear that flips the flag instead of resetting it
clearAuthStateToggles(s) == [s EXCEPT !.info = NoUser, !.auth = ~s.auth]

\* TokenService.clearAuthState
clearAuthState(s) == [s EXCEPT !.info = NoUser, !.auth = FALSE]

\* an auth-endpoint branch that leaves the session as it is
handle401AuthEndpointKeeps(s) == s

\* the auth-endpoint branch of handle401Error: tokenService.clearAuthState()
handle401AuthEndpoint(s) == clearAuthState(s)

\* TokenService.setUserInfo
setUserInfo(s, u) == [s EXCEPT !.info = u, !.auth = TRUE]

\* AuthService.handleAuthResponse: only a response that carries a user counts
handleAuthResponse(s, hasUser) ==
  IF hasUser THEN [setUserInfo(s, User) EXCEPT !.cur = User] ELSE s

\* a logout whose handlers only reset currentUser
logoutKeepsTokenState(s) == [s EXCEPT !.cur = NoUser]

\* the tap / catchError bodies of AuthService.logout
logoutCompleted(s) == [clearAuthState(s) EXCEPT !.cur = NoUser]

SetSession(s) ==
  /\ isAuthenticated' = s.auth
  /\ userInfo' = s.info
  /\ currentUser' = s.cur

SessionUnchanged == UNCHANGED <<isAuthenticated, userInfo, currentUser>>
RenewalUnchanged == UNCHANGED <<isRefreshing, refreshTokenSubject, observers>>
EpochUnchanged == UNCHANGED <<epoch401, epochCalls>>

\* ------------------------------------------------------------ interceptor
\* what a handler hands on: re-sends to the transport, a result to a caller
Outputs(log, d) == sendLog' = log /\ delivered' = d
NoOutputs == Outputs(<<>>, NoDelivery)

\* the observable of r ends with a response (200) or an error for its caller
Deliver(r, s, via) ==
  /\ requests' = [q \in Reqs |->
                    IF q = r THEN Ended("done")
                    ELSE IF via = "renewal" THEN NotIdle(requests[q])
                    ELSE requests[q]]
  /\ Outputs(<<>>, Delivery(s, via))

\* intercept(): clone with withCredentials where required, hand to next.handle
Intercept(r, u) ==
  /\ requests[r].phase = "unissued"
  /\ \A q \in Reqs : q < r => requests[q].phase # "unissued"
  /\ requests' = [requests EXCEPT ![r] =
       [NewRequest EXCEPT !.phase = "sent", !.url = u,
                          !.withCredentials = shouldIncludeCredentials(u),
                          !.idle = ~isRefreshing]]
  /\ NoOutputs
  /\ RenewalUnchanged /\ SessionUnchanged /\ EpochUnchanged
  /\ UNCHANGED logoutPending
  /\ AppUnchanged

\* the first send is answered with a success response
Succeed(r) ==
  /\ requests[r].phase = "sent"
  /\ requests[r].url # "login"
  /\ Deliver(r, 200, "send")
  /\ RenewalUnchanged /\ SessionUnchanged /\ EpochUnchanged
  /\ UNCHANGED logoutPending
  /\ AppUnchanged

\* the login call is answered with success: the tap of AuthService.login
LoginSucceeds(r, hasUser) ==
  /\ requests[r].phase = "sent"
  /\ requests[r].url = "login"
  /\ Deliver(r, 200, "send")
  /\ SetSession(handleAuthResponse(Session, hasUser))
  /\ RenewalUnchanged /\ EpochUnchanged
  /\ UNCHANGED logoutPending
  /\ AppUnchanged

\* handleError for a status other than 401: the error is rethrown
FailOther(r, s) ==
  /\ requests[r].phase = "sent"
  /\ handleErrorCase(s) # "handle401Error"
  /\ Deliver(r, s, "send")
  /\ RenewalUnchanged /\ SessionUnchanged /\ EpochUnchanged
  /\ UNCHANGED logoutPending
  /\ AppUnchanged

\* handleError passes the error of the first send of r to handle401Error
Handle401(r) ==
  /\ requests[r].phase = "sent"
  /\ \E s \in SendErrStatuses :
     /\ handleErrorCase(s) = "handle401Error"
     /\ LET q == [requests[r] EXCEPT !.status = s]
            b == handle401Branch(q.url, isRefreshing)
            counted == IF q.idle THEN epoch401 + 1 ELSE epoch401
        IN
        CASE b = "authEndpoint" ->
               /\ SetSession(handle401AuthEndpoint(Session))
               /\ Deliver(r, s, "auth")
               /\ RenewalUnchanged /\ EpochUnchanged
          [] b = "startRefresh" ->
               /\ isRefreshing' = TRUE
               /\ refreshTokenSubject' = FALSE
               /\ requests' = [requests EXCEPT ![r] =
                    [q EXCEPT !.phase = "refreshing", !.refreshCount = @ + 1,
                              !.idle = FALSE]]
               /\ epoch401' = counted
               /\ epochCalls' = epochCalls + 1
               /\ NoOutputs
               /\ SessionUnchanged
               /\ UNCHANGED observers
          [] b = "wait" ->
               /\ epoch401' = counted
               /\ IF PassesFilter(refreshTokenSubject)
                  THEN /\ requests' = [requests EXCEPT ![r] =
                            Resend([q EXCEPT !.idle = FALSE], "replaying")]
                       /\ Outputs(<<r>>, NoDelivery)
                       /\ UNCHANGED observers
                  ELSE /\ requests' = [requests EXCEPT ![r] =
                            [q EXCEPT !.phase = "waiting", !.idle = FALSE]]
                       /\ observers' = Append(observers, r)
                       /\ NoOutputs
               /\ SessionUnchanged
               /\ UNCHANGED <<isRefreshing, refreshTokenSubject, epochCalls>>
  /\ UNCHANGED logoutPending
  /\ AppUnchanged

\* refreshToken() answered with success: the tap of AuthService.refreshToken,
\* then the switchMap of handle401Error.  next(true) re-sends the observers
\* before the switchMap returns the initiator's own re-send.
RefreshSucceeds(r, hasUser) ==
  /\ requests[r].phase = "refreshing"
  /\ SetSession(handleAuthResponse(Session, hasUser))
  /\ isRefreshing' = FALSE
  /\ refreshTokenSubject' = TRUE
  /\ LET woken == IF PassesFilter(TRUE) THEN DeliveryOrder(observers) ELSE <<>> IN
       /\ requests' = [q \in Reqs |->
                         IF q = r THEN Resend(requests[q], "retrying")
                         ELSE IF q \in Range(woken)
                              THEN Resend(requests[q], "replaying")
                         ELSE NotIdle(requests[q])]
       /\ Outputs(woken \o <<r>>, NoDelivery)
  /\ observers' = ObserversAfterEmit(observers, PassesFilter(TRUE))
  /\ epoch401' = 0
  /\ epochCalls' = 0
  /\ UNCHANGED logoutPending
  /\ AppUnchanged

\* the catchError of handle401Error's refresh branch
refreshCatchError(r, s, via) ==
  /\ isRefreshing' = FALSE
  /\ refreshTokenSubject' = FALSE
  /\ observers' = ObserversAfterEmit(observers, PassesFilter(FALSE))
  /\ logoutPending' = logoutPending + 1
  /\ Deliver(r, s, via)

\* refreshToken() answered with an error.  The refresh call passes through the
\* interceptor itself (handleError on url /auth/refresh); the catchError of
\* AuthService.refreshToken builds a logout() observable without subscribing
\* to it, which has no effect; then the interceptor's catchError runs.
RefreshFails(r, s) ==
  /\ requests[r].phase = "refreshing"
  /\ LET b == handle401Branch("refresh", isRefreshing) IN
     IF s = 401 /\ b # "authEndpoint"
     THEN \* the refresh call would itself enter the refresh branches
          /\ requests' = [requests EXCEPT ![r].refreshCount = @ + 1]
          /\ isRefreshing' = TRUE
          /\ refreshTokenSubject' = IF b = "startRefresh" THEN FALSE
                                      ELSE refreshTokenSubject
          /\ NoOutputs
          /\ SessionUnchanged /\ EpochUnchanged
          /\ UNCHANGED <<observers, logoutPending>>
     ELSE /\ SetSession(IF s = 401 THEN handle401AuthEndpoint(Session)
                        ELSE Session)
          /\ refreshCatchError(r, s, "renewal")
          /\ epoch401' = 0
          /\ epochCalls' = 0
  /\ AppUnchanged

\* the initiator's re-sent request is answered; its error reaches the same
\* catchError, which sits below the switchMap
RetryResponds(r, s) ==
  /\ requests[r].phase = "retrying"
  /\ IF s = 200
     THEN /\ Deliver(r, 200, "retry")
          /\ RenewalUnchanged
          /\ UNCHANGED logoutPending
     ELSE refreshCatchError(r, s, "retry")
  /\ SessionUnchanged /\ EpochUnchanged
  /\ AppUnchanged

\* a waiter's re-sent request is answered; nothing catches its error
ReplayResponds(r, s) ==
  /\ requests[r].phase = "replaying"
  /\ Deliver(r, s, "replay")
  /\ RenewalUnchanged /\ SessionUnchanged /\ EpochUnchanged
  /\ UNCHANGED logoutPending
  /\ AppUnchanged

\* POST /auth/logout answered: with success (tap), with a 401 (the
\* interceptor's auth-endpoint branch, then catchError) or with another error
\* (catchError); each of them clears the local state
LogoutResponds ==
  /\ logoutPending > 0
  /\ logoutPending' = logoutPending - 1
  /\ SetSession(logoutCompleted(Session))
  /\ NoOutputs
  /\ RenewalUnchanged /\ EpochUnchanged
  /\ UNCHANGED requests
  /\ AppUnchanged

\* the caller unsubscribes from the observable intercept() returned
Unsubscribe(r) ==
  /\ requests[r].phase \in LivePhases
  /\ requests' = [requests EXCEPT ![r] = Ended("cancelled")]
  /\ observers' = SelectSeq(observers, LAMBDA q : q # r)
  /\ NoOutputs
  /\ SessionUnchanged /\ EpochUnchanged
  /\ UNCHANGED <<isRefreshing, refreshTokenSubject, logoutPending>>
  /\ AppUnchanged

Next ==
  \/ \E r \in Reqs, u \in AppUrls : Intercept(r, u)
  \/ \E r \in Reqs : Succeed(r)
  \/ \E r \in Reqs, hasUser \in BOOLEAN : LoginSucceeds(r, hasUser)
  \/ \E r \in Reqs, s \in SendErrStatuses : FailOther(r, s)
  \/ \E r \in Reqs : Handle401(r)
  \/ \E r \in Reqs, hasUser \in BOOLEAN : RefreshSucceeds(r, hasUser)
  \/ \E r \in Reqs, s \in RefreshErrStatuses : RefreshFails(r, s)
  \/ \E r \in Reqs, s \in Responses : RetryResponds(r, s)
  \/ \E r \in Reqs, s \in Responses : ReplayResponds(r, s)
  \/ LogoutResponds
  \/ \E r \in Reqs : Unsubscribe(r)

Spec == Init /\ [][Next]_vars

\* every call handed to the transport is eventually answered; issuing a
\* request and unsubscribing are up to the callers
Answered(r) ==
  \/ Succeed(r)
  \/ \E hasUser \in BOOLEAN : LoginSucceeds(r, hasUser)
  \/ \E s \in SendErrStatuses : FailOther(r, s)
  \/ Handle401(r)
  \/ \E hasUser \in BOOLEAN : RefreshSucceeds(r, hasUser)
  \/ \E s \in RefreshErrStatuses : RefreshFails(r, s)
  \/ \E s \in Responses : RetryResponds(r, s)
  \/ \E s \in Responses : ReplayResponds(r, s)

FairSpec ==
  /\ Init /\ [][Next]_vars
  /\ \A r \in Reqs : WF_vars(Answered(r))
  /\ WF_vars(LogoutResponds)

\* callers that never unsubscribe
NextAttended ==
  \/ \E r \in Reqs, u \in AppUrls : Intercept(r, u)
  \/ \E r \in Reqs : Succeed(r)
  \/ \E r \in Reqs, hasUser \in BOOLEAN : LoginSucceeds(r, hasUser)
  \/ \E r \in Reqs, s \in SendErrStatuses : FailOther(r, s)
  \/ \E r \in Reqs : Handle401(r)
  \/ \E r \in Reqs, hasUser \in BOOLEAN : RefreshSucceeds(r, hasUser)
  \/ \E r \in Reqs, s \in RefreshErrStatuses : RefreshFails(r, s)
  \/ \E r \in Reqs, s \in Responses : RetryResponds(r, s)
  \/ \E r \in Reqs, s \in Responses : ReplayResponds(r, s)
  \/ LogoutResponds

FairAttendedSpec ==
  /\ Init /\ [][NextAttended]_vars
  /\ \A r \in Reqs : WF_vars(Answered(r))
  /\ WF_vars(LogoutResponds)

\* callers that never unsubscribe; only the logout calls are known to be
\* answered
LogoutFairSpec == Init /\ [][NextAttended]_vars /\ WF_vars(LogoutResponds)

\* ------------------------------------------------------------------ claims
\* refreshToken() calls that were issued and are not yet answered
Outstanding == {r \in Reqs : requests[r].phase = "refreshing"}

\* the step in which the renewal started for r is answered with success / error
RenewalSucceeded(r) ==
  requests[r].phase = "refreshing" /\ requests'[r].phase = "retrying"
RenewalFailed(r) ==
  requests[r].phase = "refreshing" /\ requests'[r].phase = "done"

Cleared == ~isAuthenticated /\ userInfo = NoUser

\* C1: when two or more requests that were issued while isRefreshing was
\* false have received their 401 and no renewal has resolved since they were
\* issued, refreshToken() has been called exactly once in that time.
C1_SingleFlightPerEpisode == epoch401 >= 2 => epochCalls = 1

\* C2: in every reachable state at most one refreshToken() call is
\* outstanding.
C2_AtMostOneRenewalOutstanding == Cardinality(Outstanding) <= 1

\* C3: every request that started a renewal or waits behind one is eventually
\* handed a response or an error (callers that never unsubscribe, every call
\* answered).
C3_NoLoss ==
  \A r \in Reqs :
    (requests[r].phase \in {"refreshing", "waiting"})
      ~> (requests[r].phase = "done")

\* C4: in the step in which a renewal fails, every request waiting behind it
\* is handed an error too: none of them is still waiting afterwards.
C4_WaitersFailWithRenewal ==
  [][\A r \in Reqs :
       RenewalFailed(r) =>
         \A w \in Range(observers) : requests'[w].phase = "done"]_vars

\* C5: in the step in which a renewal succeeds, the request that started it
\* and every request waiting on refreshTokenSubject is re-sent with
\* withCredentials, and no request is ever re-sent more than once.
C5_ResentExactlyOnce ==
  /\ [][\A r \in Reqs :
          RenewalSucceeded(r) =>
            \A q \in {r} \cup Range(observers) :
              /\ requests'[q].resends = requests[q].resends + 1
              /\ requests'[q].withCredentials
              /\ requests'[q].phase \in {"retrying", "replaying"}
              /\ q \in Range(sendLog')]_vars
  /\ [](\A r \in Reqs : requests[r].resends <= 1)

C5_Witness ==
  \E r, w \in Reqs :
    /\ requests[r].phase = "retrying" /\ requests[r].resends = 1
    /\ requests[w].phase = "replaying" /\ requests[w].resends = 1
    /\ requests[w].withCredentials
    /\ sendLog = <<w, r>>

\* C6: in the step in which a renewal succeeds, the waiters are re-sent to the
\* transport in the order in which they subscribed to refreshTokenSubject.
C6_FifoReplay ==
  [][\A r \in Reqs :
       RenewalSucceeded(r) =>
         SelectSeq(sendLog', LAMBDA q : q \in Range(observers)) = observers]_vars

C6_Witness ==
  /\ Len(sendLog) >= 3
  /\ \E i, j \in 1..Len(sendLog) :
       /\ i < j /\ sendLog[i] > sendLog[j]
       /\ requests[sendLog[i]].phase = "replaying"
       /\ requests[sendLog[j]].phase = "replaying"

\* C7: refreshToken() is never called for a 401 on the login call or on the
\* renewal call itself: a login request has no renewal, another request at
\* most the one that its own 401 started.
C7_NoRecursiveRenewal ==
  \A r \in Reqs :
    requests[r].refreshCount <=
      (IF requests[r].url \in {"api", "exempt"} THEN 1 ELSE 0)

\* a 401 on an auth endpoint is handled while a renewal is in flight
C7_Witness ==
  /\ delivered = Delivery(401, "auth")
  /\ isRefreshing
  /\ Outstanding # {}

\* C8: a request to an exempt url is never sent with withCredentials, never
\* starts a renewal and never waits for one.
C8_ExemptBypass ==
  \A r \in Reqs :
    requests[r].url = "exempt" =>
      /\ ~requests[r].withCredentials
      /\ requests[r].refreshCount = 0
      /\ requests[r].phase \in {"sent", "done", "cancelled"}

\* C9: isRefreshing never stays true forever, also when the caller that
\* started the renewal unsubscribes.
C9_RefreshingEnds == isRefreshing ~> ~isRefreshing

\* C10: in the step in which a renewal fails isRefreshing becomes false and a
\* logout call is subscribed (after a 401 the session is cleared in that very
\* step); and whenever a logout call is pending the session reaches the
\* cleared state.
C10_SessionEndsCleared ==
  /\ [][\A r \in Reqs :
          RenewalFailed(r) =>
            /\ ~isRefreshing'
            /\ logoutPending' = logoutPending + 1
            /\ (delivered'.status = 401 => Cleared')]_vars
  /\ (logoutPending > 0) ~> Cleared

\* a renewal failed with a server error while the session was authenticated,
\* and the session is still authenticated
C10_Witness ==
  /\ delivered = Delivery(500, "renewal")
  /\ isAuthenticated /\ userInfo = User
  /\ logoutPending > 0
  /\ ~isRefreshing

FullyCleared == Cleared /\ currentUser = NoUser

\* C11: a renewal failure always leaves isRefreshing false; one that happens
\* in a session that is already cleared leaves it cleared; and every answered
\* logout call leaves the session in the one cleared state, whatever happened
\* between the failures.
C11_IdempotentClear ==
  /\ [][\A r \in Reqs :
          RenewalFailed(r) =>
            /\ ~isRefreshing'
            /\ (FullyCleared => FullyCleared')]_vars
  /\ [][logoutPending' < logoutPending => FullyCleared']_vars

\* a second failure path has run while the logout call of an earlier one is
\* still pending, and the session is in the cleared state
C11_Witness ==
  /\ delivered = Delivery(401, "renewal")
  /\ logoutPending >= 2
  /\ FullyCleared
  /\ ~isRefreshing

\* C12: when a request that was re-sent after a successful renewal is
\* answered with 401, it starts a renewal or waits behind the one in flight,
\* and no logout call is made in that step.
C12_Second401IsFreshEpisode ==
  [][\A r \in Reqs :
       (RetryResponds(r, 401) \/ ReplayResponds(r, 401)) =>
         /\ requests'[r].phase \in {"refreshing", "waiting"}
         /\ logoutPending' = logoutPending]_vars

\* the steps a request can go through, in order
PhaseRank(ph) ==
  CASE ph = "unissued" -> 0
    [] ph = "sent" -> 1
    [] ph \in {"refreshing", "waiting"} -> 2
    [] ph \in {"retrying", "replaying"} -> 3
    [] OTHER -> 4

SendFailed(r) ==
  /\ requests[r].phase = "sent"
  /\ requests'[r].phase = "done"
  /\ delivered'.via = "send"
  /\ delivered'.status # 200

\* C14: only a 401 leads to a renewal call or to a re-send; and a first send
\* that fails with 403, 404, 5xx or an unclassified status ends the request
\* with an object that carries that status and a message, nothing is re-sent
\* and the renewal state is untouched.
C14_OtherFailuresPropagate ==
  /\ [](\A r \in Reqs :
          requests[r].phase \in {"refreshing", "waiting", "retrying", "replaying"}
            => requests[r].status = 401)
  /\ [][\A r \in Reqs :
          SendFailed(r) =>
            /\ delivered'.status \in SendErrStatuses \ {401}
            /\ delivered'.message # "none"
            /\ sendLog' = <<>>
            /\ epochCalls' = epochCalls
            /\ Outstanding' = Outstanding
            /\ UNCHANGED <<isRefreshing, refreshTokenSubject, observers>>]_vars

\* a request failed with a status of the default case while a renewal was in
\* flight, and was handed on at once
C14_Witness ==
  /\ delivered = Delivery(504, "send")
  /\ delivered.message = "http"
  /\ isRefreshing
  /\ Outstanding # {}

\* C15: a failure with a status other than 401, of a first send or of a
\* re-sent request, leaves the session and isRefreshing unchanged and makes no
\* logout call.
C15_OtherFailuresFrame ==
  [][\A r \in Reqs, s \in SendErrStatuses \ {401} :
       (FailOther(r, s) \/ RetryResponds(r, s) \/ ReplayResponds(r, s)) =>
         /\ UNCHANGED <<isAuthenticated, userInfo, currentUser>>
         /\ UNCHANGED isRefreshing
         /\ logoutPending' = logoutPending]_vars

\* C20: a request is subscribed to refreshTokenSubject only while
\* isRefreshing is true.
C20_WaitersOnlyWhileRefreshing == observers # <<>> => isRefreshing

\* ------------------------------------------------- error classification
MaxStatus == 599
StatusCodes == 0..MaxStatus

\* the failure class each handler of handleError stands for
FailureClass(handler) ==
  CASE handler = "handle400Error" -> "ValidationFailure"
    [] handler = "handle401Error" -> "AuthFailure"
    [] handler = "handle403Error" -> "PermissionFailure"
    [] handler = "handle404Error" -> "NotFoundFailure"
    [] handler = "handle5xxError" -> "ServerFailure"
    [] OTHER -> "UnknownFailure"

\* handleError is given an error with any status
ClassifyInit ==
  /\ InterceptorInit
  /\ errStatus \in StatusCodes
  /\ failure = "none"
  /\ calls = NoCalls
  /\ ShopIdle
  /\ RestIdle

\* handleError dispatches on error.status
Classify ==
  /\ failure = "none"
  /\ failure' = FailureClass(handleErrorCase(errStatus))
  /\ UNCHANGED errStatus
  /\ UNCHANGED <<vars, calls, shopVars, restVars>>

ClassifyNext == Classify

ClassifySpec == ClassifyInit /\ [][ClassifyNext]_allVars

\* the class the taxonomy gives a status
Taxonomy(s) ==
  IF s = 400 THEN "ValidationFailure"
  ELSE IF s = 401 THEN "AuthFailure"
  ELSE IF s = 403 THEN "PermissionFailure"
  ELSE IF s = 404 THEN "NotFoundFailure"
  ELSE IF s \in 500..599 THEN "ServerFailure"
  ELSE "UnknownFailure"

\* C16: handleError classifies every status as the taxonomy does: 400
\* validation, 401 auth, 403 permission, 404 not found, 500..599 server,
\* anything else unknown.
C16_ClassificationMatchesTaxonomy ==
  failure # "none" => failure = Taxonomy(errStatus)

\* ------------------------------------------- AuthService and TokenService
MaxCalls == 2                \* calls of one kind that are pending together

\* TokenService.setAuthenticated
setAuthenticated(s, a) == [s EXCEPT !.auth = a]

\* what the interceptor does to the session when an auth endpoint (login,
\* refresh, me) answers with status st, before AuthService sees the error
authEndpointError(s, url, st) ==
  IF handleErrorCase(st) = "handle401Error"
     /\ handle401Branch(url, isRefreshing) = "authEndpoint"
  THEN handle401AuthEndpoint(s)
  ELSE s

\* nothing of the interceptor's own state or of the rest changes
OnlySession ==
  /\ UNCHANGED <<isRefreshing, refreshTokenSubject, observers, requests,
                 sendLog, delivered, epoch401, epochCalls>>
  /\ UNCHANGED <<classifyVars, shopVars, restVars>>

\* the constructor of AuthService has called checkAuthStatus
SessionInit ==
  /\ InterceptorInit
  /\ ClassifyIdle
  /\ ShopIdle
  /\ RestIdle
  /\ calls = [NoCalls EXCEPT !.me = 1]

\* AuthService.login is called and subscribed to
login ==
  /\ calls.login < MaxCalls
  /\ calls' = [calls EXCEPT !.login = @ + 1]
  /\ SessionUnchanged /\ OnlySession
  /\ UNCHANGED logoutPending

\* the login call is answered: tap(handleAuthResponse) or handleAuthError
loginResponds(ok, hasUser, st) ==
  /\ calls.login > 0
  /\ calls' = [calls EXCEPT !.login = @ - 1]
  /\ SetSession(IF ok THEN handleAuthResponse(Session, hasUser)
                ELSE authEndpointError(Session, "login", st))
  /\ OnlySession
  /\ UNCHANGED logoutPending

\* AuthService.mockLogin
mockLogin ==
  /\ SetSession([setUserInfo(Session, User) EXCEPT !.cur = User])
  /\ OnlySession
  /\ UNCHANGED <<calls, logoutPending>>

\* the interceptor calls AuthService.refreshToken for a rejected request
refreshToken ==
  /\ calls.refresh < MaxCalls
  /\ calls' = [calls EXCEPT !.refresh = @ + 1]
  /\ SessionUnchanged /\ OnlySession
  /\ UNCHANGED logoutPending

\* the refresh call is answered: the tap of refreshToken, or its catchError
\* (a logout() that is not subscribed) followed by the interceptor's
\* catchError, which subscribes to logout()
refreshResponds(ok, hasUser, st) ==
  /\ calls.refresh > 0
  /\ ok \/ logoutPending < MaxCalls
  /\ calls' = [calls EXCEPT !.refresh = @ - 1]
  /\ IF ok
     THEN /\ SetSession(handleAuthResponse(Session, hasUser))
          /\ UNCHANGED logoutPending
     ELSE /\ SetSession(authEndpointError(Session, "refresh", st))
          /\ logoutPending' = logoutPending + 1
  /\ OnlySession

\* AuthService.refreshToken is called and subscribed to by a caller of its
\* own, outside the interceptor's renewal branch
refreshTokenDirect ==
  /\ calls.refreshDirect < MaxCalls
  /\ calls' = [calls EXCEPT !.refreshDirect = @ + 1]
  /\ SessionUnchanged /\ OnlySession
  /\ UNCHANGED logoutPending

\* that refresh call is answered: the tap of refreshToken, or its catchError,
\* whose logout() observable is not subscribed to: no request is made
refreshDirectResponds(ok, hasUser, st) ==
  /\ calls.refreshDirect > 0
  /\ calls' = [calls EXCEPT !.refreshDirect = @ - 1]
  /\ SetSession(IF ok THEN handleAuthResponse(Session, hasUser)
                ELSE authEndpointError(Session, "refresh", st))
  /\ OnlySession
  /\ UNCHANGED logoutPending

\* AuthService.logout is called and subscribed to
logout ==
  /\ logoutPending < MaxCalls
  /\ logoutPending' = logoutPending + 1
  /\ SessionUnchanged /\ OnlySession
  /\ UNCHANGED calls

\* AuthService.checkAuthStatus is called
checkAuthStatus ==
  /\ calls.me < MaxCalls
  /\ calls' = [calls EXCEPT !.me = @ + 1]
  /\ SessionUnchanged /\ OnlySession
  /\ UNCHANGED logoutPending

\* GET /auth/me is answered: the next / error callbacks of checkAuthStatus
checkAuthStatusResponds(ok, hasUser, st) ==
  /\ calls.me > 0
  /\ calls' = [calls EXCEPT !.me = @ - 1]
  /\ SetSession(
       IF ok
       THEN IF hasUser THEN [setUserInfo(Session, User) EXCEPT !.cur = User]
            ELSE Session
       ELSE setAuthenticated(authEndpointError(Session, "me", st), FALSE))
  /\ OnlySession
  /\ UNCHANGED logoutPending

SessionNext ==
  \/ login
  \/ \E ok, hasUser \in BOOLEAN, st \in RefreshErrStatuses :
       loginResponds(ok, hasUser, st)
  \/ mockLogin
  \/ refreshToken
  \/ \E ok, hasUser \in BOOLEAN, st \in RefreshErrStatuses :
       refreshResponds(ok, hasUser, st)
  \/ refreshTokenDirect
  \/ \E ok, hasUser \in BOOLEAN, st \in RefreshErrStatuses :
       refreshDirectResponds(ok, hasUser, st)
  \/ logout
  \/ LogoutResponds
  \/ checkAuthStatus
  \/ \E ok, hasUser \in BOOLEAN, st \in RefreshErrStatuses :
       checkAuthStatusResponds(ok, hasUser, st)

SessionSpec == SessionInit /\ [][SessionNext]_allVars

\* C17: in every state reached by login, mockLogin, refresh, logout and
\* checkAuthStatus calls and their answers, a stored profile implies that the
\* session is authenticated.
C17_ProfileImpliesAuthenticated == userInfo # NoUser => isAuthenticated

\* ----------------------------------------------------------- CartService
NProducts == 2
ProductIds == 1..NProducts
MaxQty == 3                  \* largest quantity of one item
MaxOrders == 2               \* orders that are ever created
MaxClock == 1                \* last value of the clock

\* amounts are in cents; the prices the product API may report
Prices == {2000, 3000}
Products == [id : ProductIds, price : Prices]

\* the product list as one fetch of it reports it
CatalogProducts == {[id |-> 1, price |-> 2000], [id |-> 2, price |-> 3000]}

\* calculateShipping: free from 50 dollars on, else 9.99
FreeShippingFrom == 5000
ShippingRate == 999
\* calculateTax: 8.5 %
TaxPerMille == 85

\* Math.random().toString(36).substring(2, 8)
Randoms == {"a1b2c3", "x7y8z9"}

RECURSIVE SumQuantity(_)
SumQuantity(items) ==
  IF items = <<>> THEN 0 ELSE Head(items).quantity + SumQuantity(Tail(items))

RECURSIVE SumSubtotal(_)
SumSubtotal(items) ==
  IF items = <<>> THEN 0 ELSE Head(items).subtotal + SumSubtotal(Tail(items))

\* updateCart: the totals are recomputed from the items
updateCart(items) ==
  [items |-> items, totalItems |-> SumQuantity(items),
   totalAmount |-> SumSubtotal(items)]

\* items.findIndex(item => item.product.id === id); 0 stands for -1
findIndex(items, id) ==
  IF \E i \in 1..Len(items) : items[i].product.id = id
  THEN CHOOSE i \in 1..Len(items) :
         /\ items[i].product.id = id
         /\ \A j \in 1..(i - 1) : items[j].product.id # id
  ELSE 0

\* the updatedItems of addToCart
addedItems(items, product, quantity) ==
  LET idx == findIndex(items, product.id) IN
  IF idx > 0
  THEN [items EXCEPT ![idx] =
         [@ EXCEPT !.quantity = items[idx].quantity + quantity,
                   !.subtotal = (items[idx].quantity + quantity) * product.price]]
  ELSE Append(items, [product |-> product, quantity |-> quantity,
                      subtotal |-> product.price * quantity])

\* the updatedItems of removeFromCart
filteredItems(items, productId) ==
  SelectSeq(items, LAMBDA item : item.product.id # productId)

\* the updatedItems of updateQuantity for a quantity above 0
requantifiedItems(items, productId, quantity) ==
  [i \in 1..Len(items) |->
     IF items[i].product.id = productId
     THEN [items[i] EXCEPT !.quantity = quantity,
                           !.subtotal = items[i].product.price * quantity]
     ELSE items[i]]

calculateShipping(subtotal) ==
  IF subtotal >= FreeShippingFrom THEN 0 ELSE ShippingRate

calculateTax(subtotal) == (subtotal * TaxPerMille) \div 1000

cartSummary(c) ==
  LET subtotal == c.totalAmount
      shipping == calculateShipping(subtotal)
      tax == calculateTax(subtotal)
  IN [itemCount |-> c.totalItems, subtotal |-> subtotal, shipping |-> shipping,
      tax |-> tax, total |-> subtotal + shipping + tax]

\* generateOrderId: `ORD-${timestamp}-${random}`, one id per pair
generateOrderId(timestamp, random) ==
  [timestamp |-> timestamp, random |-> random]

\* getOrder: the first order with that id, "undefined" if there is none
getOrder(os, orderId) ==
  IF \E i \in 1..Len(os) : os[i].id = orderId
  THEN os[CHOOSE i \in 1..Len(os) :
            /\ os[i].id = orderId
            /\ \A j \in 1..(i - 1) : os[j].id # orderId]
  ELSE "undefined"

\* the quantities a caller passes, and those an item is followed through:
\* negative, zero and positive ones
Quantities == (0 - 1)..MaxQty

\* nothing outside the cart service changes
OnlyShop == UNCHANGED <<vars, classifyVars, calls, restVars>>

addToCart(product, quantity) ==
  /\ \A i \in 1..Len(cart.items) :
       cart.items[i].product.id = product.id =>
         cart.items[i].quantity + quantity \in Quantities
  /\ cart' = updateCart(addedItems(cart.items, product, quantity))
  /\ receipt' = NoReceipt
  /\ UNCHANGED <<orders, now>>
  /\ OnlyShop

removeFromCart(productId) ==
  /\ cart' = updateCart(filteredItems(cart.items, productId))
  /\ receipt' = NoReceipt
  /\ UNCHANGED <<orders, now>>
  /\ OnlyShop

updateQuantity(productId, quantity) ==
  /\ cart' = IF quantity <= 0
             THEN updateCart(filteredItems(cart.items, productId))
             ELSE updateCart(requantifiedItems(cart.items, productId, quantity))
  /\ receipt' = NoReceipt
  /\ UNCHANGED <<orders, now>>
  /\ OnlyShop

clearCart ==
  /\ cart' = EmptyCart
  /\ receipt' = NoReceipt
  /\ UNCHANGED <<orders, now>>
  /\ OnlyShop

CartNext ==
  \/ \E product \in Products, quantity \in Quantities :
       addToCart(product, quantity)
  \/ \E productId \in ProductIds : removeFromCart(productId)
  \/ \E productId \in ProductIds, quantity \in Quantities :
       updateQuantity(productId, quantity)
  \/ clearCart

CartInit == InterceptorInit /\ AppIdle

CartSpec == CartInit /\ [][CartNext]_allVars

\* C18: after any sequence of addToCart, removeFromCart, updateQuantity and
\* clearCart, totalItems is the sum of the quantities, totalAmount the sum of
\* the subtotals, and each item's subtotal is its product's price times its
\* quantity.
C18_CartTotals ==
  /\ cart.totalItems = SumQuantity(cart.items)
  /\ cart.totalAmount = SumSubtotal(cart.items)
  /\ \A i \in 1..Len(cart.items) :
       cart.items[i].subtotal =
         cart.items[i].product.price * cart.items[i].quantity

\* ------------------------------------------------------------- checkout
\* the form data of an order request, reduced to the shipping method
OrderRequests == {[shippingMethod |-> "standard"], [shippingMethod |-> "express"]}

\* createOrder: the summary is read, the order is appended to the orders and
\* the cart is cleared; the promise resolves with the order
placeOrder(orderRequest) ==
  /\ Len(orders) < MaxOrders
  /\ \E random \in Randoms :
       LET summary == cartSummary(cart)
           orderId == generateOrderId(now, random)
           order == [id |-> orderId,
                     shipping |-> orderRequest,
                     subtotal |-> summary.subtotal,
                     shipping_cost |-> summary.shipping,
                     tax |-> summary.tax,
                     total |-> summary.total,
                     status |-> "pending"]
       IN /\ orders' = Append(orders, order)
          /\ receipt' = [resolved |-> TRUE, order |-> order,
                         summary |-> summary, ordersBefore |-> Len(orders)]
  /\ cart' = EmptyCart
  /\ UNCHANGED now

\* createOrder called on its own
createOrder(orderRequest) == placeOrder(orderRequest) /\ OnlyShop

\* a millisecond passes
Tick ==
  /\ now < MaxClock
  /\ now' = now + 1
  /\ UNCHANGED <<cart, orders, receipt>>
  /\ OnlyShop

CheckoutNext ==
  \/ \E product \in CatalogProducts : addToCart(product, 1)
  \/ \E orderRequest \in OrderRequests : createOrder(orderRequest)
  \/ Tick

CheckoutSpec == CartInit /\ [][CheckoutNext]_allVars

\* C19: when createOrder has resolved, the cart is empty, the orders have
\* grown by one, getOrder of the returned id returns the order that was
\* returned, and its subtotal, shipping cost, tax and total are those of the
\* cart summary read before the call.
C19_CreateOrder ==
  receipt.resolved =>
    /\ cart = EmptyCart
    /\ Len(orders) = receipt.ordersBefore + 1
    /\ getOrder(orders, receipt.order.id) = receipt.order
    /\ receipt.order.subtotal = receipt.summary.subtotal
    /\ receipt.order.shipping_cost = receipt.summary.shipping
    /\ receipt.order.tax = receipt.summary.tax
    /\ receipt.order.total = receipt.summary.total

\* ------------------------------------------------- renewal: order of re-sends
\* C21: when the renewal succeeds, the request that started the renewal is
\* handed to the transport again before any queued waiter is
C21_InitiatorResentFirst ==
  [][\A r \in Reqs :
       RenewalSucceeded(r) => (sendLog' # <<>> /\ sendLog'[1] = r)]_vars

\* ------------------------------------------------ 401 on an auth endpoint
\* the first send of a login call is answered with 401
AuthEndpoint401(r) ==
  /\ requests[r].phase = "sent"
  /\ IsAuthEndpoint(requests[r].url)
  /\ requests'[r].phase = "done"
  /\ delivered'.status = 401

refreshTokenFailed ==
  \E st \in RefreshErrStatuses :
    refreshResponds(FALSE, FALSE, st) \/ refreshDirectResponds(FALSE, FALSE, st)

\* C23: an answered logout call leaves the token state cleared and
\* currentUser null; and when the failure handler of AuthService.refreshToken
\* has run, the session is in that cleared state or a logout call is pending
\* whose answer will clear it.
C23_LogoutPathsClear ==
  /\ [][logoutPending' < logoutPending => FullyCleared']_allVars
  /\ [][refreshTokenFailed => (FullyCleared' \/ logoutPending' > 0)]_allVars

\* --------------------------------------------------------- startup probe
\* the error callback of checkAuthStatus runs for an answer other than a 401
\* (a 401 on /auth/me also takes the interceptor's auth-endpoint branch)
probeFailed ==
  \E st \in RefreshErrStatuses \ {401} :
    checkAuthStatusResponds(FALSE, FALSE, st)

\* C26: when GET /auth/me of checkAuthStatus fails after a login or mockLogin
\* has made the session authenticated, the session stays authenticated.
C26_ProbeKeepsLogin ==
  [][(probeFailed /\ isAuthenticated) => isAuthenticated']_allVars

\* ------------------------------------------- the two views of the user
\* C29: AuthService.currentUser is non-null only if TokenService.isAuthenticated
\* is true, also after a 401 on an auth endpoint.
C29_CurrentUserImpliesAuthenticated == currentUser # NoUser => isAuthenticated

\* ------------------------------------------------------- cart quantities
\* C27: after any sequence of addToCart, updateQuantity, removeFromCart and
\* clearCart with any integer quantity, every item of the cart has a quantity
\* of at least 1 and totalItems is not negative.
C27_QuantitiesPositive ==
  /\ \A i \in 1..Len(cart.items) : cart.items[i].quantity >= 1
  /\ cart.totalItems >= 0

\* ------------------------------------------------------ CheckoutComponent
MaxSubmits == 1              \* orders placed through the component
MaxSubmitItems == 2          \* items in the cart at checkout

\* billingForm.valid, shippingForm.valid, paymentForm.valid
FormValidity == [billing : BOOLEAN, shipping : BOOLEAN, payment : BOOLEAN]

\* the condition of the early return of submitOrder
formsInvalid(valid) == ~valid.billing \/ ~valid.shipping \/ ~valid.payment

\* submitOrder is suspended at its await, on a promise already settled
Suspended == {"resolved", "rejected"}

\* a finally clause that is skipped when the try block has thrown
isProcessingWithoutFinally(outcome) == outcome = "failed"

\* finally { this.isProcessing.set(false) }
isProcessingAfter(outcome) == FALSE

\* submitOrder up to its await: the early return for invalid forms, or
\* isProcessing.set(true) and the call of createOrder, which runs to its end
\* (it has no await of its own) or throws before it changes anything
submitOrder(valid, orderRequest, threw) ==
  /\ checkout.submission \notin Suspended
  /\ Len(orders) < MaxSubmits
  /\ IF formsInvalid(valid)
     THEN /\ checkout' = [checkout EXCEPT !.submission = "invalid"]
          /\ UNCHANGED shopVars
     ELSE IF threw
     THEN /\ checkout' = [isProcessing |-> TRUE, submission |-> "rejected"]
          /\ UNCHANGED shopVars
     ELSE /\ checkout' = [isProcessing |-> TRUE, submission |-> "resolved"]
          /\ placeOrder(orderRequest)
  /\ UNCHANGED <<vars, classifyVars, calls, store, catalog>>

\* submitOrder after its await: the rest of the try block or the catch block,
\* then the finally block
submitOrderResumes ==
  /\ checkout.submission \in Suspended
  /\ LET outcome == IF checkout.submission = "resolved" THEN "placed"
                     ELSE "failed"
     IN checkout' = [isProcessing |-> isProcessingAfter(outcome),
                     submission |-> outcome]
  /\ UNCHANGED shopVars
  /\ UNCHANGED <<vars, classifyVars, calls, store, catalog>>

\* the user fills the cart before checkout; nothing runs between the await of
\* submitOrder and its continuation
fillCart(product) ==
  /\ checkout.submission \notin Suspended
  /\ cart.totalItems < MaxSubmitItems
  /\ addToCart(product, 1)

SubmitNext ==
  \/ \E product \in CatalogProducts : fillCart(product)
  \/ \E valid \in FormValidity, orderRequest \in OrderRequests,
        threw \in BOOLEAN : submitOrder(valid, orderRequest, threw)
  \/ submitOrderResumes

SubmitSpec == CartInit /\ [][SubmitNext]_allVars

\* submitOrder takes its early return
submitRefused ==
  \E valid \in FormValidity, orderRequest \in OrderRequests, threw \in BOOLEAN :
    formsInvalid(valid) /\ submitOrder(valid, orderRequest, threw)

\* C24: when one of the billing, shipping and payment forms is invalid,
\* submitOrder creates no order and leaves the cart, the orders and
\* isProcessing as they are; and whenever submitOrder has returned, after a
\* placed order or after a thrown error, isProcessing is false.
C24_SubmitAllOrNothing ==
  /\ [][submitRefused =>
          /\ UNCHANGED <<cart, orders>>
          /\ checkout'.isProcessing = checkout.isProcessing
          /\ ~checkout'.isProcessing]_allVars
  /\ [](checkout.submission \notin Suspended => ~checkout.isProcessing)

\* createOrder threw: submitOrder has returned through catch and finally, the
\* cart still holds its items and no order was created
C24_Witness ==
  /\ checkout.submission = "failed"
  /\ ~checkout.isProcessing
  /\ cart.items # <<>>
  /\ orders = <<>>

\* ------------------------------------------- electron main: the order store
\* nothing outside the main process changes
OnlyStore == UNCHANGED <<vars, classifyVars, calls, shopVars, checkout, catalog>>

\* the handler h has reached pc, holding the orders array it read
AtStep(h, pc, read) ==
  store' = [store EXCEPT !.handlers[h] = [pc |-> pc, orders |-> read]]

\* cart:submitOrder is invoked: the order is built (its id is h) and
\* saveOrderToFile calls loadOrdersFromFile, which awaits fs.readFile
cartSubmitOrder(h) ==
  /\ store.handlers[h].pc = "idle"
  /\ \A g \in Handlers : g < h => store.handlers[g].pc # "idle"
  /\ AtStep(h, "reading", <<>>)
  /\ OnlyStore

\* fs.readFile is done: loadOrdersFromFile returns the orders of the file (or
\* throws), saveOrderToFile pushes the order and awaits fs.writeFile
loadOrdersFromFile(h, ok) ==
  /\ store.handlers[h].pc = "reading"
  /\ IF ok THEN AtStep(h, "writing", Append(store.file, h))
           ELSE AtStep(h, "failed", <<>>)
  /\ OnlyStore

\* fs.writeFile is done: the file holds the array of this handler; the handler
\* goes on to await fs.unlink(CART_FILE).  A failed write rejects the call.
saveOrderToFile(h, ok) ==
  /\ store.handlers[h].pc = "writing"
  /\ IF ok
     THEN store' = [file |-> store.handlers[h].orders,
                    handlers |-> [store.handlers EXCEPT ![h].pc = "unlinking"]]
     ELSE AtStep(h, "failed", <<>>)
  /\ OnlyStore

\* fs.unlink is done, with or without an error: the order is returned
returnOrder(h) ==
  /\ store.handlers[h].pc = "unlinking"
  /\ AtStep(h, "returned", store.handlers[h].orders)
  /\ OnlyStore

StoreNext ==
  \/ \E h \in Handlers : cartSubmitOrder(h)
  \/ \E h \in Handlers, ok \in BOOLEAN : loadOrdersFromFile(h, ok)
  \/ \E h \in Handlers, ok \in BOOLEAN : saveOrderToFile(h, ok)
  \/ \E h \in Handlers : returnOrder(h)

StoreSpec == CartInit /\ [][StoreNext]_allVars

\* cart:getOrders: the orders of the file
getOrders == store.file

\* cart:getOrder: orders.find(o => o.id === orderId) on the orders of the
\* file; 0 stands for the rejected call ("Order not found")
ipcGetOrder(orderId) ==
  IF orderId \in Range(getOrders) THEN orderId ELSE 0

\* C25: every order that cart:submitOrder has returned is in orders.json:
\* cart:getOrder finds it and cart:getOrders contains it, also when several
\* cart:submitOrder calls are in progress together.
C25_ReturnedOrdersStored ==
  \A h \in Handlers :
    store.handlers[h].pc = "returned" =>
      /\ ipcGetOrder(h) = h
      /\ h \in Range(getOrders)

\* ----------------------------------------------------------- ProductService
OnlyCatalog == UNCHANGED <<vars, classifyVars, calls, shopVars, checkout, store>>

\* loadProducts, loadProductById or loadProductsByCategory is called
startLoad(k) ==
  /\ catalog.pending[k] < MaxLoads
  /\ catalog' = [catalog EXCEPT !.loading = TRUE, !.error = FALSE,
                                !.pending[k] = @ + 1]
  /\ OnlyCatalog

\* the next / error callback of a load of kind k
loadDelivers(k, ok) ==
  /\ catalog.pending[k] > 0
  /\ catalog' =
       IF ~ok
       THEN [catalog EXCEPT !.error = TRUE, !.loading = FALSE,
                            !.pending[k] = @ - 1]
       ELSE IF k = "loadProductById"
       THEN [catalog EXCEPT !.selectedProduct = TRUE, !.loading = FALSE,
                            !.pending[k] = @ - 1]
       ELSE [catalog EXCEPT !.products = k, !.loading = FALSE,
                            !.pending[k] = @ - 1]
  /\ OnlyCatalog

CatalogNext ==
  \/ \E k \in LoadKinds : startLoad(k)
  \/ \E k \in LoadKinds, ok \in BOOLEAN : loadDelivers(k, ok)

CatalogSpec == CartInit /\ [][CatalogNext]_allVars

\* C28: loading is true whenever a load has been started and has not yet
\* delivered its result or its error.
C28_LoadingWhileOutstanding ==
  (\E k \in LoadKinds : catalog.pending[k] > 0) => catalog.loading

====
